---- MODULE Spec2Model ----
(***************************************************************************)
(* The agent run engine of packages/core/src/dreams.ts (createDreams):     *)
(* agent.start, agent.getContext, agent.saveContext, agent.run and         *)
(* agent.send.  Every call of agent.send is a process; a process moves     *)
(* from one await of the code to the next in one action, so the actions    *)
(* interleave exactly where the JavaScript event loop can interleave them. *)
(***************************************************************************)
EXTENDS Naturals, FiniteSets, Sequences, TLC

\* ------------------------------------------------------------------ bounds
NumCalls == 2          \* concurrent agent.send calls
MaxStepsBound == 2     \* settings.maxSteps ranges over 0..MaxStepsBound
MaxModelCalls == 3     \* model calls in one behaviour (a run's retries are unbounded)
NumTasks == 4          \* tasks enqueued on the TaskRunner in one behaviour
MaxRetry == 2          \* action.retry ranges over 0..MaxRetry
MaxTokens == 4         \* lexical pieces a response text is made of
NumServices == 3       \* service providers an agent may be configured with
MaxStarts == 2         \* calls of agent.start

Procs == 1..NumCalls
Tasks == 1..NumTasks
Services == 1..NumServices
Ctxs == {"c1", "c2"}
NoProc == 0            \* no entry under a key of a Map
InitialStep == 1       \* state.step of a new stream handler

\* ------------------------------------------------------------------ logs
\* An InputRef made by agent.send of call p, or the n-th StepRef of run p.
InputLog(p) == [kind |-> "input", p |-> p, n |-> 0]
StepLog(p, n) == [kind |-> "step", p |-> p, n |-> n]
Logs == {InputLog(p) : p \in Procs}
          \cup {StepLog(p, n) : p \in Procs, n \in 1..MaxModelCalls}
EmptyMemory == [l \in Logs |-> "absent"]

VARIABLES
  booted,           \* let booted
  totalCalls,       \* model calls enqueued so far, by all runs
  settings,         \* settings.maxSteps of the context type: {k}, or {} if undefined
  onErrorHook,      \* whether the context type defines onError
  pc,               \* the await each call is suspended at
  ctxOf,            \* the context id of each call (ctxId)
  contextsRunning,  \* Map ctxId -> run (the call that registered it)
  contexts,         \* Map id -> ContextState (the call that created the object)
  contextIds,       \* Set of known context ids
  ctxState,         \* the ContextState object agent.getContext gave the call
  storeState,       \* durable store: context ids with a saved ContextState
  storeIndex,       \* durable store: the saved contexts index
  storeWM,          \* durable store: WorkingMemory snapshot of each context
  wm,               \* the WorkingMemory object of each call (log -> processed flag)
  chain,            \* state.chain of each run
  step,             \* state.step of each run
  stepRefs,         \* number of StepRefs the run created (the last is stepRef)
  unprocessed,      \* const unprocessed of the current step
  rendered,         \* logs shown as unprocessed in some prompt of the run
  modelCalls,       \* number of runGenerate tasks the run enqueued
  stepsRun,         \* values of state.step at which a model call was enqueued
  aborted,          \* abortSignal.aborted of each call
  errored,          \* some step of the run raised an exception
  endedByError,     \* the step loop was left through a break of the catch block
  scFalse,          \* some shouldContinue() of the run returned false
  lastOnError,      \* how the last onError hook of the run ended
  joinedInto,       \* the run a joining call pushed its chain to
  result,           \* how the call ended
  savedAfterError,  \* what was written to the store since the last step error
  streamError,      \* let streamError of the current step is set
  response          \* stepRef.data.response of the current StepRef is set

agentVars == <<totalCalls, booted, settings, onErrorHook, pc, ctxOf, contextsRunning, contexts,
          contextIds, ctxState, storeState, storeIndex, storeWM, wm, chain,
          step, stepRefs, unprocessed, rendered, modelCalls, stepsRun, aborted,
          errored, endedByError, scFalse, lastOnError, joinedInto,
          result, savedAfterError, streamError, response>>

\* ------------------------------------------------- the TaskRunner component
\* The TaskRunner of the agent (new TaskRunner(3)) with the tasks the runs
\* enqueue on it: the runGenerate call of a step and the runAction call of
\* every action call the stream handler dispatches.
VARIABLES
  actionRetry,      \* action.retry of the action definition
  phase,            \* where the run of each context id is within its step
  nextTask,         \* id of the next task to be enqueued
  tKind,            \* "none", "generate" (runGenerate) or "action" (runAction)
  tOwner,           \* the context id of the run that enqueued the task
  tStatus,          \* "none", "queued", "running", "ok", "failed", "dropped"
  tAttempts,        \* attempts of the task function started so far
  tSettled,         \* how many times the promise of enqueueTask settled
  queue,            \* the queue of the TaskRunner, first in first out
  signalAborted,    \* abortSignal.aborted of the run of each context id
  results           \* ActionResult logs in the WorkingMemory for each action call

taskVars == <<actionRetry, phase, nextTask, tKind, tOwner, tStatus, tAttempts,
              tSettled, queue, signalAborted, results>>

\* ------------------------------------------- the stream assembler component
\* handleStream over the text stream of one model response
VARIABLES
  sText,            \* the complete response text, a sequence of characters
  sPos,             \* characters delivered so far
  sState,           \* the assembler: pending buffer, stack, emitted elements, top-level text
  sEnded,           \* the stream has ended
  sCut              \* history: a fragment ended inside a delimiter

streamVars == <<sText, sPos, sState, sEnded, sCut>>

\* --------------------------------------------- the service manager component
\* createDreams registering the service providers and agent.start booting them
VARIABLES
  svcPlace,         \* where a provider is listed: "config", "extension" or "none"
  building,         \* createDreams: "config" (line 116), "extensions" (120) or "done"
  registered,       \* providers whose register method was called
  bootCalls,        \* how many times boot of each provider was invoked
  starting,         \* agent.start: "none", the await it is at, "done" or "failed"
  startCalls        \* calls of agent.start so far

svcVars == <<svcPlace, building, registered, bootCalls, starting, startCalls>>

\* ------------------------------------------------------ agent.start
VARIABLES
  agentContext,     \* config.context is given (agent.context)
  agentState,       \* const agentState of agent.start (NoProc until it is set)
  alias,            \* contexts.get("agent:context") (NoProc while the key is absent)
  effects,          \* how many times each phase of agent.start was performed
  byId,             \* agent.getContextById(id): "none", "loading" or "saving"
  indexAtStart      \* history: the stored contexts index when agent.start began

startVars == <<agentContext, agentState, alias, effects, byId, indexAtStart>>

componentVars == <<taskVars, streamVars, svcVars, startVars>>
vars == <<agentVars, componentVars>>

\* groups of variables, for UNCHANGED lists
ctxVars == <<contexts, contextIds, ctxState, storeState, storeIndex>>
cfgVars == <<totalCalls, booted, settings, onErrorHook>>

\* the agent createDreams returns: not booted, no context in memory
AgentNew ==
  /\ booted = FALSE
  /\ totalCalls = 0
  /\ settings \in {{k} : k \in 0..MaxStepsBound}
  /\ onErrorHook \in BOOLEAN
  /\ pc = [p \in Procs |-> "idle"]
  /\ ctxOf = [p \in Procs |-> "c1"]
  /\ contextsRunning = [c \in Ctxs |-> NoProc]
  /\ contexts = [c \in Ctxs |-> NoProc]
  /\ contextIds = {}
  /\ ctxState = [p \in Procs |-> NoProc]
  /\ storeWM = [c \in Ctxs |-> EmptyMemory]
  /\ wm = [p \in Procs |-> EmptyMemory]
  /\ chain = [p \in Procs |-> {}]
  /\ step = [p \in Procs |-> InitialStep]
  /\ stepRefs = [p \in Procs |-> 0]
  /\ unprocessed = [p \in Procs |-> {}]
  /\ rendered = [p \in Procs |-> {}]
  /\ modelCalls = [p \in Procs |-> 0]
  /\ stepsRun = [p \in Procs |-> {}]
  /\ aborted = [p \in Procs |-> FALSE]
  /\ errored = [p \in Procs |-> FALSE]
  /\ endedByError = [p \in Procs |-> FALSE]
  /\ scFalse = [p \in Procs |-> FALSE]
  /\ lastOnError = [p \in Procs |-> "none"]
  /\ joinedInto = [p \in Procs |-> NoProc]
  /\ result = [p \in Procs |-> "none"]
  /\ savedAfterError = [p \in Procs |-> {}]
  /\ streamError = [p \in Procs |-> FALSE]
  /\ response = [p \in Procs |-> FALSE]

\* an agent whose store holds nothing
AgentInit ==
  /\ AgentNew
  /\ storeState = {}
  /\ storeIndex = {}

\* a TaskRunner nothing has been enqueued on; no run is inside a step
TasksIdle ==
  /\ phase = [r \in Ctxs |-> "idle"]
  /\ nextTask = 1
  /\ tKind = [t \in Tasks |-> "none"]
  /\ tOwner = [t \in Tasks |-> "none"]
  /\ tStatus = [t \in Tasks |-> "none"]
  /\ tAttempts = [t \in Tasks |-> 0]
  /\ tSettled = [t \in Tasks |-> 0]
  /\ queue = <<>>
  /\ signalAborted = [r \in Ctxs |-> FALSE]
  /\ results = [t \in Tasks |-> 0]

\* the assembler of a new handleStream call: nothing buffered, empty stack
NewAssembler == [buf |-> <<>>, stack |-> <<>>, out |-> <<>>, top |-> <<>>]

\* no response is being streamed
StreamIdle ==
  /\ sText = <<>>
  /\ sPos = 0
  /\ sState = NewAssembler
  /\ sEnded = FALSE
  /\ sCut = FALSE

\* the phases of agent.start after the boot of the services
Effects == {"extensions", "inputs", "subscribe", "outputs", "actions", "restore"}

\* the id of the agent context (getContextId(agent.context, args))
AgentCtxId == "c2"

\* agent.start has not been called; no agent context is configured
StartIdle ==
  /\ agentContext = FALSE
  /\ agentState = NoProc
  /\ alias = NoProc
  /\ effects = [e \in Effects |-> 0]
  /\ byId = [c \in Ctxs |-> "none"]
  /\ indexAtStart = {}

\* an agent created without service providers
NoServices ==
  /\ svcPlace = [s \in Services |-> "none"]
  /\ building = "done"
  /\ registered = {}
  /\ bootCalls = [s \in Services |-> 0]
  /\ starting = "none"
  /\ startCalls = 0

Init ==
  /\ AgentInit
  /\ actionRetry = 0
  /\ TasksIdle
  /\ StreamIdle
  /\ NoServices
  /\ StartIdle

runVars == <<wm, chain, step, stepRefs, unprocessed, rendered, modelCalls, stepsRun>>
histVars == <<errored, endedByError, scFalse, lastOnError, savedAfterError>>
respVars == <<streamError, response>>
callVars == <<pc, ctxOf, contextsRunning, storeWM, runVars, histVars, respVars,
              aborted, joinedInto, result>>

\* ------------------------------------------------------------- agent.start
\* agent.start: if (booted) return agent; booted = true
Start ==
  /\ ~booted
  /\ booted' = TRUE
  /\ UNCHANGED <<totalCalls, settings, onErrorHook, pc, ctxOf, contextsRunning, ctxVars,
                 storeWM, runVars, histVars, aborted, joinedInto, result>>
  /\ UNCHANGED respVars
  /\ UNCHANGED componentVars

\* --------------------------------------------------------- pure helpers
DefaultMaxSteps == 5

\* function getMaxSteps() { return ctxState.settings.maxSteps ?? 5 }
getMaxStepsDefault == DefaultMaxSteps
getMaxSteps ==
  IF settings = {} THEN DefaultMaxSteps ELSE CHOOSE k \in settings : TRUE

\* while ((maxSteps = getMaxSteps()) >= state.step)
LoopConditionStrict(maxSteps, stepv) == maxSteps > stepv
LoopCondition(maxSteps, stepv) == maxSteps >= stepv

\* if (contextsRunning.has(ctxId))
AlreadyRunningNoCheck(c) == FALSE
AlreadyRunning(c) == contextsRunning[c] # NoProc

\* const { push } = contextsRunning.get(ctxId)!
JoinTargetOwn(p) == p
JoinTarget(p) == contextsRunning[ctxOf[p]]

\* catch: if (context.onError) { try { await onError } catch { break } } else { break }
CatchBreaksNever(hasHook, hookThrew) == FALSE
CatchBreaks(hasHook, hookThrew) == ~hasHook \/ hookThrew

\* state.step++ unless the abort signal fired or shouldContinue() returned false
StopsAfterStepIgnoringHook(isAborted, sc) == isAborted
StopsAfterStep(isAborted, sc) == isAborted \/ ~sc

\* pushToWorkingMemory: each log enters the WorkingMemory with the processed
\* flag it carries (false for a new InputRef or StepRef)
Push(wmv, ls) == [l \in Logs |-> IF l \in ls THEN "unprocessed" ELSE wmv[l]]

\* push(log, true) of the stream handler of run r, for each log of ls:
\* handlePushLog puts the log into state.chain and the WorkingMemory and saves
\* the updated WorkingMemory
HandlePushLog(r, ls) ==
  /\ wm' = [wm EXCEPT ![r] = Push(@, ls)]
  /\ chain' = [chain EXCEPT ![r] = @ \cup ls]
  /\ storeWM' = [storeWM EXCEPT ![ctxOf[r]] = Push(wm[r], ls)]

\* workingMemory.inputs.forEach(processed = true); state.chain.forEach(processed = true)
MarkAllProcessed(wmv, chainv) ==
  [l \in Logs |-> IF wmv[l] # "absent" /\ (l.kind = "input" \/ l \in chainv)
                  THEN "processed" ELSE wmv[l]]

\* [...workingMemory.inputs.filter(unprocessed), ...state.chain.filter(unprocessed)]
Unprocessed(wmv, chainv) ==
  {l \in Logs : wmv[l] = "unprocessed" /\ (l.kind = "input" \/ l \in chainv)}

\* unprocessed.forEach(i => i.processed = true)
MarkProcessedAll(wmv, ls) == [l \in Logs |-> IF wmv[l] # "absent" THEN "processed" ELSE wmv[l]]
MarkProcessed(wmv, ls) == [l \in Logs |-> IF l \in ls THEN "processed" ELSE wmv[l]]

\* a ContextState is named by the call whose getContext made it; one made
\* outside agent.run (by agent.start or by getContextById) by its id
StateOf(c) == NumCalls + (IF c = "c1" THEN 1 ELSE 2)

\* ctxState.id
StateId(obj) == IF obj \in Procs THEN ctxOf[obj] ELSE CHOOSE c \in Ctxs : StateOf(c) = obj

\* agent.saveContext, synchronous part: contextIds.add(ctxState.id);
\* contexts.set(ctxState.id, ctxState)
SaveContextSyncNoIndex(c, obj) ==
  /\ contextIds' = contextIds
  /\ contexts' = [contexts EXCEPT ![StateId(obj)] = obj]
SaveContextSync(c, obj) ==
  /\ contextIds' = contextIds \cup {StateId(obj)}
  /\ contexts' = [contexts EXCEPT ![StateId(obj)] = obj]

\* agent.saveContext, awaited part: saveContextState and saveContextsIndex
SaveContextStore(c) ==
  /\ storeState' = storeState \cup {c}
  /\ storeIndex' = contextIds

\* what the run wrote to the store since its last step error
NoteSaved(p, what) ==
  savedAfterError' = [savedAfterError EXCEPT ![p] = IF errored[p] THEN @ \cup {what} ELSE @]

\* const response = await getTextResponse(); stepRef.data.response = response;
\* if (streamError) throw streamError
ResponseRecordedOnSuccess(hasError) == ~hasError
ResponseRecorded(hasError) == TRUE

\* ------------------------------------------------- synchronous run segments
\* const prompt = render(formatter(workingMemory)); const unprocessed = [...];
\* await taskRunner.enqueueTask(runGenerate, ...)
RenderAndCall(p, stepv, wmv, chainv) ==
  /\ totalCalls < MaxModelCalls
  /\ totalCalls' = totalCalls + 1
  /\ unprocessed' = [unprocessed EXCEPT ![p] = Unprocessed(wmv, chainv)]
  /\ rendered' = [rendered EXCEPT ![p] = @ \cup {l \in Logs : wmv[l] = "unprocessed"}]
  /\ modelCalls' = [modelCalls EXCEPT ![p] = @ + 1]
  /\ stepsRun' = [stepsRun EXCEPT ![p] = @ \cup {stepv}]
  /\ streamError' = [streamError EXCEPT ![p] = FALSE]
  /\ pc' = [pc EXCEPT ![p] = "model"]

\* after the loop: mark everything processed, then await the onRun hooks
Completion(p) ==
  /\ wm' = [wm EXCEPT ![p] = MarkAllProcessed(@, chain[p])]
  /\ pc' = [pc EXCEPT ![p] = "onRun"]
  /\ streamError' = [streamError EXCEPT ![p] = FALSE]
  /\ UNCHANGED <<totalCalls, unprocessed, rendered, modelCalls, stepsRun>>

\* the head of the while loop, reached with state.step = stepv
LoopHead(p, stepv) ==
  IF LoopCondition(getMaxSteps, stepv)
  THEN IF stepv > 1
       THEN /\ pc' = [pc EXCEPT ![p] = "newStep"]
            /\ streamError' = [streamError EXCEPT ![p] = FALSE]
            /\ UNCHANGED <<totalCalls, wm, unprocessed, rendered, modelCalls, stepsRun>>
       ELSE /\ RenderAndCall(p, stepv, wm[p], chain[p])
            /\ UNCHANGED wm
  ELSE Completion(p)

\* throw inside the try block: console.error, saveContext of every context
\* (synchronous part), then await Promise.allSettled
EnterCatchNoSave(p) ==
  /\ pc' = [pc EXCEPT ![p] = "onError"]
  /\ errored' = [errored EXCEPT ![p] = TRUE]
  /\ savedAfterError' = [savedAfterError EXCEPT ![p] = {}]
  /\ UNCHANGED <<endedByError, scFalse, lastOnError, ctxVars>>

EnterCatch(p) ==
  /\ pc' = [pc EXCEPT ![p] = "catchSave"]
  /\ errored' = [errored EXCEPT ![p] = TRUE]
  /\ savedAfterError' = [savedAfterError EXCEPT ![p] = {}]
  /\ SaveContextSync(ctxOf[p], ctxState[p])
  /\ UNCHANGED <<endedByError, scFalse, lastOnError, ctxState, storeState, storeIndex>>


\* agent.run returns or throws: the locals of the call and the bookkeeping of
\* its run are gone (keepMemory: the WorkingMemory and the chain stay reachable
\* through the push function of an entry left in contextsRunning)
ForgetRun(p, keepMemory) ==
  /\ wm' = [wm EXCEPT ![p] = IF keepMemory THEN @ ELSE EmptyMemory]
  /\ chain' = [chain EXCEPT ![p] = IF keepMemory THEN @ ELSE {}]
  /\ step' = [step EXCEPT ![p] = InitialStep]
  /\ stepRefs' = [stepRefs EXCEPT ![p] = 0]
  /\ unprocessed' = [unprocessed EXCEPT ![p] = {}]
  /\ rendered' = [rendered EXCEPT ![p] = {}]
  /\ modelCalls' = [modelCalls EXCEPT ![p] = 0]
  /\ stepsRun' = [stepsRun EXCEPT ![p] = {}]
  /\ aborted' = [aborted EXCEPT ![p] = FALSE]
  /\ errored' = [errored EXCEPT ![p] = FALSE]
  /\ endedByError' = [endedByError EXCEPT ![p] = FALSE]
  /\ scFalse' = [scFalse EXCEPT ![p] = FALSE]
  /\ lastOnError' = [lastOnError EXCEPT ![p] = "none"]
  /\ savedAfterError' = [savedAfterError EXCEPT ![p] = {}]
  /\ streamError' = [streamError EXCEPT ![p] = FALSE]
  /\ response' = [response EXCEPT ![p] = FALSE]

\* ----------------------------------------------------- agent.send / agent.run
\* let booted (false until agent.start)
IsBootedAlways == TRUE
IsBooted == booted

\* if (!booted) { throw new Error("Not booted") }
RunNotBooted(p) ==
  /\ pc[p] = "idle"
  /\ \A q \in Procs : q < p => pc[q] # "idle"
  /\ ~IsBooted
  /\ pc' = [pc EXCEPT ![p] = "threw"]
  /\ result' = [result EXCEPT ![p] = "NotBooted"]
  /\ UNCHANGED <<totalCalls, booted, settings, onErrorHook, ctxOf, contextsRunning, ctxVars, storeWM, runVars,
                 histVars, aborted, joinedInto>>
  /\ UNCHANGED respVars
  /\ UNCHANGED componentVars

\* agent.send makes the InputRef and calls agent.run, which runs up to its first
\* await: agent.getContext returns the state of the contexts map or starts to
\* load or create one (either way saveContext follows)
RunAnyContext(p, c) ==
  /\ pc[p] = "idle"
  /\ \A q \in Procs : q < p => pc[q] # "idle"
  /\ IsBooted
  /\ ctxOf' = [ctxOf EXCEPT ![p] = c]
  /\ IF contexts[c] # NoProc
     THEN /\ ctxState' = [ctxState EXCEPT ![p] = contexts[c]]
          /\ pc' = [pc EXCEPT ![p] = "getWM"]
     ELSE /\ pc' = [pc EXCEPT ![p] = "createState"]
          /\ UNCHANGED ctxState
  /\ UNCHANGED <<totalCalls, booted, settings, onErrorHook, contextsRunning, contexts, contextIds, storeState,
                 storeIndex, storeWM, runVars, histVars, aborted, joinedInto, result>>
  /\ UNCHANGED respVars
  /\ UNCHANGED componentVars

\* The calls are numbered in the order they are made and the first one targets
\* c1 (calls and context ids are interchangeable when the store is empty).
RunCall(p, c) ==
  /\ c = "c1" \/ p > 1
  /\ RunAnyContext(p, c)

\* agent.getContext: createContextState resolved, saveContext(newState) starts
CreateContextState(p) ==
  /\ pc[p] = "createState"
  /\ SaveContextSync(ctxOf[p], p)
  /\ pc' = [pc EXCEPT ![p] = "saveNew"]
  /\ UNCHANGED <<totalCalls, booted, settings, onErrorHook, ctxOf, contextsRunning, ctxState, storeState, storeIndex,
                 storeWM, runVars, histVars, aborted, joinedInto, result>>
  /\ UNCHANGED respVars
  /\ UNCHANGED componentVars

\* agent.getContext: saveContext resolved; return contexts.get(id)
SaveNewContext(p) ==
  /\ pc[p] = "saveNew"
  /\ SaveContextStore(ctxOf[p])
  /\ ctxState' = [ctxState EXCEPT ![p] = contexts[ctxOf[p]]]
  /\ pc' = [pc EXCEPT ![p] = "getWM"]
  /\ UNCHANGED <<totalCalls, booted, settings, onErrorHook, ctxOf, contextsRunning, contexts, contextIds,
                 storeWM, runVars, histVars, aborted, joinedInto, result>>
  /\ UNCHANGED respVars
  /\ UNCHANGED componentVars

\* agent.context ? await agent.getContext({ context: agent.context,
\* args: contexts.get("agent:context")!.args }) : undefined
AgentContextReady == ~agentContext \/ alias # NoProc

\* getContextWorkingMemory resolved, agent.context is given and the contexts
\* map has no "agent:context" key yet: reading .args of undefined throws
RunAgentContextMissing(p) ==
  /\ pc[p] = "getWM"
  /\ ~AgentContextReady
  /\ pc' = [pc EXCEPT ![p] = "threw"]
  /\ result' = [result EXCEPT ![p] = "TypeError"]
  /\ UNCHANGED <<totalCalls, booted, settings, onErrorHook, ctxOf, contextsRunning, ctxVars, storeWM, runVars,
                 histVars, aborted, joinedInto>>
  /\ UNCHANGED respVars
  /\ UNCHANGED componentVars

\* getContextWorkingMemory resolved and the context is running:
\* params.chain.forEach(el => push(el, true)); return []
JoinRun(p) ==
  /\ pc[p] = "getWM"
  /\ AgentContextReady
  /\ AlreadyRunning(ctxOf[p])
  /\ LET r == JoinTarget(p)
     IN /\ HandlePushLog(r, {InputLog(p)})
        /\ joinedInto' = [joinedInto EXCEPT ![p] = r]
        /\ NoteSaved(r, "wm")
  /\ pc' = [pc EXCEPT ![p] = "joined"]
  /\ result' = [result EXCEPT ![p] = "empty"]
  /\ UNCHANGED <<totalCalls, booted, settings, onErrorHook, ctxOf, contextsRunning, ctxVars, step, stepRefs,
                 unprocessed, rendered, modelCalls, stepsRun, errored,
                 endedByError, scFalse, lastOnError, aborted>>
  /\ UNCHANGED respVars
  /\ UNCHANGED componentVars

\* getContextWorkingMemory resolved and the context is not running:
\* createContextStreamHandler, contextsRunning.set(ctxId, ...), state.start(...)
RegisterRun(p) ==
  /\ pc[p] = "getWM"
  /\ AgentContextReady
  /\ ~AlreadyRunning(ctxOf[p])
  /\ wm' = [wm EXCEPT ![p] = storeWM[ctxOf[p]]]
  /\ contextsRunning' = [contextsRunning EXCEPT ![ctxOf[p]] = p]
  /\ pc' = [pc EXCEPT ![p] = "start"]
  /\ UNCHANGED <<totalCalls, booted, settings, onErrorHook, ctxOf, ctxVars, storeWM, chain, step, stepRefs,
                 unprocessed, rendered, modelCalls, stepsRun, histVars, aborted,
                 joinedInto, result>>
  /\ UNCHANGED respVars
  /\ UNCHANGED componentVars

\* state.start resolved with the first StepRef; the chain is pushed
StateStart(p) ==
  /\ pc[p] = "start"
  /\ HandlePushLog(p, {StepLog(p, 1), InputLog(p)})
  /\ stepRefs' = [stepRefs EXCEPT ![p] = 1]
  /\ pc' = [pc EXCEPT ![p] = "pushChain"]
  /\ UNCHANGED <<totalCalls, booted, settings, onErrorHook, ctxOf, contextsRunning, ctxVars, step, unprocessed,
                 rendered, modelCalls, stepsRun, histVars, aborted, joinedInto, result>>
  /\ UNCHANGED respVars
  /\ UNCHANGED componentVars

\* state.start or a push of the chain rejected: agent.run throws
RunSetupThrows(p) ==
  /\ pc[p] \in {"start", "pushChain"}
  /\ pc' = [pc EXCEPT ![p] = "threw"]
  /\ result' = [result EXCEPT ![p] = "startError"]
  /\ ForgetRun(p, TRUE)
  /\ UNCHANGED <<totalCalls, booted, settings, onErrorHook, ctxOf, contextsRunning, ctxVars, storeWM, joinedInto>>
  /\ UNCHANGED componentVars

\* the pushes of the chain resolved (state.calls is empty): first loop test
PushChain(p) ==
  /\ pc[p] = "pushChain"
  /\ LoopHead(p, step[p])
  /\ UNCHANGED <<booted, settings, onErrorHook, ctxOf, contextsRunning, ctxVars, storeWM, chain, step,
                 stepRefs, histVars, aborted, joinedInto, result>>
  /\ UNCHANGED response
  /\ UNCHANGED componentVars

\* state.startNewStep resolved with a new StepRef; render and call the model
StartNewStep(p) ==
  /\ pc[p] = "newStep"
  /\ LET ref == StepLog(p, stepRefs[p] + 1)
     IN /\ HandlePushLog(p, {ref})
        /\ RenderAndCall(p, step[p], Push(wm[p], {ref}), chain[p] \cup {ref})
  /\ stepRefs' = [stepRefs EXCEPT ![p] = @ + 1]
  /\ NoteSaved(p, "wm")
  /\ UNCHANGED <<booted, settings, onErrorHook, ctxOf, contextsRunning, ctxVars, step, errored,
                 endedByError, scFalse, lastOnError, aborted, joinedInto, result>>
  /\ response' = [response EXCEPT ![p] = FALSE]
  /\ UNCHANGED componentVars

\* the stream was handled without a stream error: mark the step's logs
\* processed, await saveContextWorkingMemory
ModelOk(p) ==
  /\ pc[p] = "model"
  /\ wm' = [wm EXCEPT ![p] = MarkProcessed(@, unprocessed[p])]
  /\ pc' = [pc EXCEPT ![p] = "saveWM1"]
  /\ UNCHANGED <<totalCalls, booted, settings, onErrorHook, ctxOf, contextsRunning, ctxVars, storeWM, chain, step,
                 stepRefs, unprocessed, rendered, modelCalls, stepsRun, histVars,
                 aborted, joinedInto, result>>
  /\ response' = [response EXCEPT ![p] = @ \/ ResponseRecorded(FALSE)]
  /\ UNCHANGED streamError
  /\ UNCHANGED componentVars

\* an exception inside the try block: startNewStep, the model call (the
\* promise of enqueueTask, handleStream or getTextResponse rejects), an onStep
\* hook, or saveContext of the step
StepThrows(p) ==
  /\ pc[p] \in {"newStep", "model", "onStep", "saveCtx"}
  /\ EnterCatch(p)
  /\ UNCHANGED <<totalCalls, booted, settings, onErrorHook, ctxOf, contextsRunning, storeWM, runVars, aborted,
                 joinedInto, result>>
  /\ UNCHANGED respVars
  /\ UNCHANGED componentVars

\* the stream was handled but the onError callback of runGenerate had set
\* streamError: stepRef.data.response = response; throw streamError
StreamErrorThrown(p) ==
  /\ pc[p] = "model"
  /\ streamError' = [streamError EXCEPT ![p] = TRUE]
  /\ response' = [response EXCEPT ![p] = @ \/ ResponseRecorded(TRUE)]
  /\ EnterCatch(p)
  /\ UNCHANGED <<totalCalls, booted, settings, onErrorHook, ctxOf, contextsRunning, storeWM, runVars, aborted,
                 joinedInto, result>>
  /\ UNCHANGED componentVars

\* saveContextWorkingMemory resolved; await Promise.allSettled(state.calls)
SaveWM1(p) ==
  /\ pc[p] = "saveWM1"
  /\ storeWM' = [storeWM EXCEPT ![ctxOf[p]] = wm[p]]
  /\ NoteSaved(p, "wm")
  /\ pc' = [pc EXCEPT ![p] = "awaitCalls"]
  /\ UNCHANGED <<totalCalls, booted, settings, onErrorHook, ctxOf, contextsRunning, ctxVars, runVars, errored,
                 endedByError, scFalse, lastOnError, aborted, joinedInto, result>>
  /\ UNCHANGED respVars
  /\ UNCHANGED componentVars

\* the calls settled: stepRef.processed = true; await saveContextWorkingMemory
CallsSettled(p) ==
  /\ pc[p] = "awaitCalls"
  /\ wm' = [wm EXCEPT ![p] = MarkProcessed(@, {StepLog(p, stepRefs[p])})]
  /\ pc' = [pc EXCEPT ![p] = "saveWM2"]
  /\ UNCHANGED <<totalCalls, booted, settings, onErrorHook, ctxOf, contextsRunning, ctxVars, storeWM, chain, step,
                 stepRefs, unprocessed, rendered, modelCalls, stepsRun, histVars,
                 aborted, joinedInto, result>>
  /\ UNCHANGED respVars
  /\ UNCHANGED componentVars

\* saveContextWorkingMemory resolved; await the onStep hooks
SaveWM2(p) ==
  /\ pc[p] = "saveWM2"
  /\ storeWM' = [storeWM EXCEPT ![ctxOf[p]] = wm[p]]
  /\ NoteSaved(p, "wm")
  /\ pc' = [pc EXCEPT ![p] = "onStep"]
  /\ UNCHANGED <<totalCalls, booted, settings, onErrorHook, ctxOf, contextsRunning, ctxVars, runVars, errored,
                 endedByError, scFalse, lastOnError, aborted, joinedInto, result>>
  /\ UNCHANGED respVars
  /\ UNCHANGED componentVars

\* the onStep hooks resolved; saveContext of every context starts
OnStep(p) ==
  /\ pc[p] = "onStep"
  /\ SaveContextSync(ctxOf[p], ctxState[p])
  /\ pc' = [pc EXCEPT ![p] = "saveCtx"]
  /\ UNCHANGED <<totalCalls, booted, settings, onErrorHook, ctxOf, contextsRunning, ctxState, storeState, storeIndex,
                 storeWM, runVars, histVars, aborted, joinedInto, result>>
  /\ UNCHANGED respVars
  /\ UNCHANGED componentVars

\* saveContext resolved: if (abortSignal?.aborted) break;
\* if (!state.shouldContinue()) break; state.step++; then the loop test
StepEnd(p) ==
  /\ pc[p] = "saveCtx"
  /\ SaveContextStore(ctxOf[p])
  /\ NoteSaved(p, "ctx")
  /\ \E sc \in BOOLEAN :
       /\ scFalse' = [scFalse EXCEPT ![p] = @ \/ (~aborted[p] /\ ~sc)]
       /\ IF StopsAfterStep(aborted[p], sc)
          THEN /\ Completion(p)
               /\ UNCHANGED step
          ELSE /\ step' = [step EXCEPT ![p] = @ + 1]
               /\ LoopHead(p, step[p] + 1)
  /\ UNCHANGED <<booted, settings, onErrorHook, ctxOf, contextsRunning, contexts, contextIds, ctxState,
                 storeWM, chain, stepRefs, errored, endedByError, lastOnError,
                 aborted, joinedInto, result>>
  /\ UNCHANGED response
  /\ UNCHANGED componentVars

\* catch: Promise.allSettled(saveContext) resolved, a failed save being ignored;
\* without an onError hook the loop is left
CatchSave(p) ==
  /\ pc[p] = "catchSave"
  /\ \E ok \in BOOLEAN :
       IF ok THEN SaveContextStore(ctxOf[p]) /\ NoteSaved(p, "ctx")
             ELSE UNCHANGED <<storeState, storeIndex, savedAfterError>>
  /\ IF CatchBreaks(onErrorHook, FALSE)
     THEN /\ endedByError' = [endedByError EXCEPT ![p] = TRUE]
          /\ Completion(p)
     ELSE /\ pc' = [pc EXCEPT ![p] = "onError"]
          /\ UNCHANGED <<totalCalls, endedByError, wm, unprocessed, rendered, modelCalls, stepsRun,
                         streamError>>
  /\ UNCHANGED <<booted, settings, onErrorHook, ctxOf, contextsRunning, contexts, contextIds, ctxState,
                 storeWM, chain, step, stepRefs, errored, scFalse,
                 lastOnError, aborted, joinedInto, result>>
  /\ UNCHANGED response
  /\ UNCHANGED componentVars

\* the onError hook settled: a throw leaves the loop, a return goes back to
\* the loop test with state.step as it was
OnError(p) ==
  /\ pc[p] = "onError"
  /\ \E threw \in BOOLEAN :
       /\ lastOnError' = [lastOnError EXCEPT ![p] = IF threw THEN "threw" ELSE "returned"]
       /\ IF CatchBreaks(TRUE, threw)
          THEN /\ endedByError' = [endedByError EXCEPT ![p] = TRUE]
               /\ Completion(p)
          ELSE /\ LoopHead(p, step[p])
               /\ UNCHANGED endedByError
  /\ UNCHANGED <<booted, settings, onErrorHook, ctxOf, contextsRunning, ctxVars, storeWM, chain, step,
                 stepRefs, errored, scFalse, savedAfterError, aborted,
                 joinedInto, result>>
  /\ UNCHANGED response
  /\ UNCHANGED componentVars

\* the onRun hooks resolved; the final saveContext of every context starts
OnRun(p) ==
  /\ pc[p] = "onRun"
  /\ SaveContextSync(ctxOf[p], ctxState[p])
  /\ pc' = [pc EXCEPT ![p] = "finalSave"]
  /\ UNCHANGED <<totalCalls, booted, settings, onErrorHook, ctxOf, contextsRunning, ctxState, storeState, storeIndex,
                 storeWM, runVars, histVars, aborted, joinedInto, result>>
  /\ UNCHANGED respVars
  /\ UNCHANGED componentVars

\* an onRun hook or the final saveContext rejected: agent.run throws
CompletionThrows(p) ==
  /\ pc[p] \in {"onRun", "finalSave"}
  /\ pc' = [pc EXCEPT ![p] = "threw"]
  /\ result' = [result EXCEPT ![p] = "completionError"]
  /\ ForgetRun(p, TRUE)
  /\ UNCHANGED <<totalCalls, booted, settings, onErrorHook, ctxOf, contextsRunning, ctxVars, storeWM, joinedInto>>
  /\ UNCHANGED componentVars

\* the final saveContext resolved: contextsRunning.delete(ctxState.id);
\* return state.chain
FinalSave(p) ==
  /\ pc[p] = "finalSave"
  /\ SaveContextStore(ctxOf[p])
  /\ contextsRunning' = [contextsRunning EXCEPT ![ctxOf[p]] = NoProc]
  /\ pc' = [pc EXCEPT ![p] = "done"]
  /\ result' = [result EXCEPT ![p] = "chain"]
  /\ ForgetRun(p, FALSE)
  /\ UNCHANGED <<totalCalls, booted, settings, onErrorHook, ctxOf, contexts, contextIds, ctxState, storeWM, joinedInto>>
  /\ UNCHANGED componentVars

\* the caller's AbortController fires while the run is in progress
InRun == {"start", "pushChain", "newStep", "model", "saveWM1", "awaitCalls",
          "saveWM2", "onStep", "saveCtx", "catchSave", "onError", "onRun",
          "finalSave"}

Abort(p) ==
  /\ pc[p] \in InRun
  /\ ~aborted[p]
  /\ aborted' = [aborted EXCEPT ![p] = TRUE]
  /\ UNCHANGED <<totalCalls, booted, settings, onErrorHook, pc, ctxOf, contextsRunning, ctxVars, storeWM, runVars,
                 histVars, joinedInto, result>>
  /\ UNCHANGED respVars
  /\ UNCHANGED componentVars

Next ==
  \/ Start
  \/ \E p \in Procs :
       \/ RunNotBooted(p)
       \/ \E c \in Ctxs : RunCall(p, c)
       \/ CreateContextState(p)
       \/ SaveNewContext(p)
       \/ JoinRun(p)
       \/ RegisterRun(p)
       \/ StateStart(p)
       \/ RunSetupThrows(p)
       \/ PushChain(p)
       \/ StartNewStep(p)
       \/ ModelOk(p)
       \/ StepThrows(p)
       \/ StreamErrorThrown(p)
       \/ SaveWM1(p)
       \/ CallsSettled(p)
       \/ SaveWM2(p)
       \/ OnStep(p)
       \/ StepEnd(p)
       \/ CatchSave(p)
       \/ OnError(p)
       \/ OnRun(p)
       \/ CompletionThrows(p)
       \/ FinalSave(p)
       \/ Abort(p)

Spec == Init /\ [][Next]_vars

\* ------------------------------------------------- settings changed in a run
\* the values of ctxState.settings.maxSteps: undefined or a number
SettingsValues == {{}} \cup {{k} : k \in 0..MaxStepsBound}

\* a hook, an action handler or the caller assigns ctxState.settings.maxSteps
\* of the ContextState the run holds
SetMaxSteps(v) ==
  /\ v \in SettingsValues /\ v # settings
  /\ \E c \in Ctxs : contexts[c] # NoProc
  /\ settings' = v
  /\ UNCHANGED <<totalCalls, booted, onErrorHook, pc, ctxOf, contextsRunning, ctxVars,
                 storeWM, runVars, histVars, respVars, aborted, joinedInto, result>>
  /\ UNCHANGED componentVars

\* the call the run of this specification belongs to
FirstCall == 1

\* one agent.send call whose context changes its maxSteps setting at any time
NextSteps ==
  \/ Start
  \/ \E v \in SettingsValues : SetMaxSteps(v)
  \/ \E p \in {FirstCall} :
       \/ RunNotBooted(p)
       \/ \E c \in Ctxs : RunCall(p, c)
       \/ CreateContextState(p)
       \/ SaveNewContext(p)
       \/ RegisterRun(p)
       \/ StateStart(p)
       \/ RunSetupThrows(p)
       \/ PushChain(p)
       \/ StartNewStep(p)
       \/ ModelOk(p)
       \/ StepThrows(p)
       \/ StreamErrorThrown(p)
       \/ SaveWM1(p)
       \/ CallsSettled(p)
       \/ SaveWM2(p)
       \/ OnStep(p)
       \/ StepEnd(p)
       \/ CatchSave(p)
       \/ OnError(p)
       \/ OnRun(p)
       \/ CompletionThrows(p)
       \/ FinalSave(p)
       \/ Abort(p)

SpecSteps == Init /\ [][NextSteps]_vars

\* ============================================================ TaskRunner
\* const taskRunner = config.taskRunner ?? new TaskRunner(3)
taskRunnerConcurrency == 3

\* the runGenerate task is enqueued without a retry option, a runAction task
\* with retry: action.retry
retryOf(t) == IF tKind[t] = "action" THEN actionRetry ELSE 0

\* a failed attempt is followed by another one while the attempts made do not
\* exceed the retry count
RetryAllowedOnceMore(t) == tAttempts[t] <= retryOf(t) + 1
RetryAllowed(t) == tAttempts[t] <= retryOf(t)

\* the signal of run r firing drops the queued tasks enqueued with it
DropsNothing(t, r) == FALSE
DropsOnAbort(t, r) == tOwner[t] = r

\* handleActionCall pushes an ActionResult for the settled call: the handler's
\* return value, or the error of a handler that failed for good
PushesResultOnSuccess(ok) == ok
PushesResult(ok) == TRUE

\* slots a TaskRunner with n running tasks may fill from its queue
FreeSlotsUnlimited(n) == NumTasks
FreeSlots(n) == IF n < taskRunnerConcurrency THEN taskRunnerConcurrency - n ELSE 0

Running(st) == {t \in Tasks : st[t] = "running"}

\* the promise of the tasks of set ts settles: the TaskRunner keeps nothing of
\* a settled task
Settle(ts) ==
  /\ tSettled' = [t \in Tasks |-> IF t \in ts THEN tSettled[t] + 1 ELSE tSettled[t]]
  /\ tKind' = [t \in Tasks |-> IF t \in ts THEN "none" ELSE tKind[t]]
  /\ tOwner' = [t \in Tasks |-> IF t \in ts THEN "none" ELSE tOwner[t]]

\* the queue is served in order while fewer than the limit of tasks run; st,
\* att and q are the statuses, attempts and queue the caller leaves behind
ProcessQueue(st, att, q) ==
  LET free == FreeSlots(Cardinality(Running(st)))
      k == IF Len(q) < free THEN Len(q) ELSE free
      go == {q[i] : i \in 1..k}
  IN /\ tStatus' = [t \in Tasks |-> IF t \in go THEN "running" ELSE st[t]]
     /\ tAttempts' = [t \in Tasks |-> IF t \in go THEN 1 ELSE att[t]]
     /\ queue' = SubSeq(q, k + 1, Len(q))

\* taskRunner.enqueueTask(task, params, {retry, abortSignal}) by run r: the
\* task joins the queue and the queue is served; under a signal that has fired
\* already the task is dropped at once and its promise rejects
EnqueueTask(t, kind, r) ==
  /\ t = nextTask /\ t \in Tasks
  /\ nextTask' = t + 1
  /\ IF signalAborted[r]
     THEN /\ tStatus' = [tStatus EXCEPT ![t] = "dropped"]
          /\ Settle({t})
          /\ UNCHANGED <<tAttempts, queue>>
     ELSE /\ tKind' = [tKind EXCEPT ![t] = kind]
          /\ tOwner' = [tOwner EXCEPT ![t] = r]
          /\ ProcessQueue([tStatus EXCEPT ![t] = "queued"], tAttempts, Append(queue, t))
          /\ UNCHANGED tSettled

\* some caller enqueues a runGenerate or a runAction task with the signal of
\* run r (the run whose task comes first is called c1)
EnqueueAny(kind, r) ==
  /\ r = "c1" \/ nextTask > 1
  /\ EnqueueTask(nextTask, kind, r)
  /\ UNCHANGED <<actionRetry, phase, signalAborted, results, agentVars, streamVars, svcVars, startVars>>

\* agent.run of a fresh run r: state.start resolved, the logs of params.chain
\* are being pushed
RunStarts(r) ==
  /\ phase[r] = "idle"
  /\ phase' = [phase EXCEPT ![r] = "pushChain"]
  /\ UNCHANGED <<actionRetry, nextTask, tKind, tOwner, tStatus, tAttempts, tSettled,
                 queue, signalAborted, results, agentVars, streamVars, svcVars, startVars>>

\* await Promise.all(params.chain.map(log => push(log, true))) resolved
ChainPushed(r) ==
  /\ phase[r] = "pushChain"
  /\ phase' = [phase EXCEPT ![r] = "initialCalls"]
  /\ UNCHANGED <<actionRetry, nextTask, tKind, tOwner, tStatus, tAttempts, tSettled,
                 queue, signalAborted, results, agentVars, streamVars, svcVars, startVars>>

\* a step of run r: await taskRunner.enqueueTask(runGenerate, ..., {abortSignal})
EnqueueGenerate(r) ==
  /\ phase[r] = "ready"
  /\ EnqueueTask(nextTask, "generate", r)
  /\ phase' = [phase EXCEPT ![r] = IF signalAborted[r] THEN "catch" ELSE "model"]
  /\ UNCHANGED <<actionRetry, signalAborted, results, agentVars, streamVars, svcVars, startVars>>

\* the handler is given an action_call, by handleStream or by a push of the
\* chain: handleActionCall enqueues runAction and the promise goes onto
\* state.calls
DispatchAction(r) ==
  /\ phase[r] \in {"pushChain", "stream"}
  /\ EnqueueTask(nextTask, "action", r)
  /\ UNCHANGED <<actionRetry, phase, signalAborted, results, agentVars, streamVars, svcVars, startVars>>

\* the attempt of a running task returns: the promise of enqueueTask resolves
\* (runGenerate: with the stream; runAction: the ActionResult is pushed), the
\* slot is freed and the queue is served
AttemptSucceeds(t) ==
  /\ tStatus[t] = "running"
  /\ Settle({t})
  /\ IF tKind[t] = "generate"
     THEN /\ phase' = [phase EXCEPT ![tOwner[t]] = IF @ = "model" THEN "stream" ELSE @]
          /\ UNCHANGED results
     ELSE /\ results' = [results EXCEPT ![t] = IF PushesResult(TRUE) THEN @ + 1 ELSE @]
          /\ UNCHANGED phase
  /\ ProcessQueue([tStatus EXCEPT ![t] = "ok"], tAttempts, queue)
  /\ UNCHANGED <<actionRetry, nextTask, signalAborted, agentVars, streamVars, svcVars, startVars>>

\* the attempt of a running task throws: it is attempted again at once while
\* its retry count allows; otherwise the promise rejects (runGenerate: the
\* step goes to its catch block; runAction: an error ActionResult is pushed)
AttemptFails(t) ==
  /\ tStatus[t] = "running"
  /\ IF RetryAllowed(t)
     THEN /\ tAttempts' = [tAttempts EXCEPT ![t] = @ + 1]
          /\ UNCHANGED <<tKind, tOwner, tStatus, tSettled, queue, phase, results>>
     ELSE /\ Settle({t})
          /\ IF tKind[t] = "generate"
             THEN /\ phase' = [phase EXCEPT ![tOwner[t]] = IF @ = "model" THEN "catch" ELSE @]
                  /\ UNCHANGED results
             ELSE /\ results' = [results EXCEPT ![t] = IF PushesResult(FALSE) THEN @ + 1 ELSE @]
                  /\ UNCHANGED phase
          /\ ProcessQueue([tStatus EXCEPT ![t] = "failed"], tAttempts, queue)
  /\ UNCHANGED <<actionRetry, nextTask, signalAborted, agentVars, streamVars, svcVars, startVars>>

\* await handleStream(...) returned without a stream error
StreamEnds(r) ==
  /\ phase[r] = "stream"
  /\ phase' = [phase EXCEPT ![r] = "awaitCalls"]
  /\ UNCHANGED <<actionRetry, nextTask, tKind, tOwner, tStatus, tAttempts, tSettled,
                 queue, signalAborted, results, agentVars, streamVars, svcVars, startVars>>

\* if (streamError) throw streamError: the calls already dispatched stay
\* on state.calls and are not awaited
StreamError(r) ==
  /\ phase[r] = "stream"
  /\ phase' = [phase EXCEPT ![r] = "catch"]
  /\ UNCHANGED <<actionRetry, nextTask, tKind, tOwner, tStatus, tAttempts, tSettled,
                 queue, signalAborted, results, agentVars, streamVars, svcVars, startVars>>

\* the promises on state.calls of run r that have not settled
PendingCallsNone(r) == {}
PendingCalls(r) == {t \in Tasks : tOwner[t] = r /\ tKind[t] = "action"}

\* before the loop: if (state.calls.length > 0) { await
\* Promise.allSettled(state.calls); state.calls.length = 0 }
InitialCallsSettled(r) ==
  /\ phase[r] = "initialCalls"
  /\ PendingCalls(r) = {}
  /\ phase' = [phase EXCEPT ![r] = "ready"]
  /\ UNCHANGED <<actionRetry, nextTask, tKind, tOwner, tStatus, tAttempts, tSettled,
                 queue, signalAborted, results, agentVars, streamVars, svcVars, startVars>>

\* await Promise.allSettled(state.calls); state.calls.length = 0
AllSettled(r) ==
  /\ phase[r] = "awaitCalls"
  /\ PendingCalls(r) = {}
  /\ phase' = [phase EXCEPT ![r] = "stepDone"]
  /\ UNCHANGED <<actionRetry, nextTask, tKind, tOwner, tStatus, tAttempts, tSettled,
                 queue, signalAborted, results, agentVars, streamVars, svcVars, startVars>>

\* the step loop is left, after the step or through the break of the catch
\* block (no onError hook), and agent.run returns state.chain
RunReturns(r) ==
  /\ phase[r] \in {"stepDone", "catch"}
  /\ phase' = [phase EXCEPT ![r] = "returned"]
  /\ UNCHANGED <<actionRetry, nextTask, tKind, tOwner, tStatus, tAttempts, tSettled,
                 queue, signalAborted, results, agentVars, streamVars, svcVars, startVars>>

\* the abort signal of run r fires: its queued tasks are dropped and their
\* promises reject; its running tasks are left to notice the signal
AbortFires(r) ==
  /\ phase[r] # "idle" \/ \E t \in Tasks : tOwner[t] = r
  /\ ~signalAborted[r]
  /\ signalAborted' = [signalAborted EXCEPT ![r] = TRUE]
  /\ LET dropped == {t \in Tasks : tStatus[t] = "queued" /\ DropsOnAbort(t, r)}
     IN /\ tStatus' = [t \in Tasks |-> IF t \in dropped THEN "dropped" ELSE tStatus[t]]
        /\ Settle(dropped)
        /\ queue' = SelectSeq(queue, LAMBDA t : t \notin dropped)
        /\ phase' = [phase EXCEPT ![r] =
                       IF @ = "model" /\ \E t \in dropped : tKind[t] = "generate"
                       THEN "catch" ELSE @]
  /\ UNCHANGED <<actionRetry, nextTask, tAttempts, results, agentVars, streamVars, svcVars, startVars>>

\* the agent with nothing sent to it
AgentIdle == AgentInit /\ settings = {0} /\ ~onErrorHook

\* tasks enqueued without a retry option
InitTasks ==
  /\ AgentIdle
  /\ actionRetry = 0
  /\ TasksIdle
  /\ StreamIdle
  /\ NoServices
  /\ StartIdle

\* the TaskRunner under any sequence of enqueueTask calls
NextTasks ==
  \/ \E kind \in {"generate", "action"}, r \in Ctxs : EnqueueAny(kind, r)
  \/ \E r \in Ctxs : AbortFires(r)
  \/ \E t \in Tasks :
       \/ AttemptSucceeds(t)
       \/ AttemptFails(t)

SpecTasks == InitTasks /\ [][NextTasks]_vars

\* an action definition with retry: 0..MaxRetry
InitCalls ==
  /\ AgentIdle
  /\ actionRetry \in 0..MaxRetry
  /\ TasksIdle
  /\ StreamIdle
  /\ NoServices
  /\ StartIdle

\* one step of the run of context c1 with the action calls of its stream
NextCalls ==
  \/ RunStarts("c1")
  \/ ChainPushed("c1")
  \/ InitialCallsSettled("c1")
  \/ EnqueueGenerate("c1")
  \/ DispatchAction("c1")
  \/ StreamEnds("c1")
  \/ StreamError("c1")
  \/ AllSettled("c1")
  \/ RunReturns("c1")
  \/ AbortFires("c1")
  \/ \E t \in Tasks :
       \/ AttemptSucceeds(t)
       \/ AttemptFails(t)

\* every attempt of a task function comes to an end
SpecCalls ==
  /\ InitCalls /\ [][NextCalls]_vars
  /\ \A t \in Tasks : WF_vars(AttemptSucceeds(t) \/ AttemptFails(t))

\* ====================================================== stream assembler
\* the tags the handler recognises (injected per run)
TagNames == {"t"}

\* lexical pieces of a response: an opening tag, a closing tag, a character of
\* text, an opening tag with an attribute, an unrecognised tag, a stray "<"
\* and a stray ">"
Tokens ==
  { <<"<", "t", ">">>, <<"<", "/", "t", ">">>, <<"k">>,
    <<"<", "t", " ", "k", "=", "v", ">">>, <<"<", "k", ">">>, <<"<">>, <<">">> }

RECURSIVE Flatten(_)
Flatten(ts) == IF ts = <<>> THEN <<>> ELSE Head(ts) \o Flatten(Tail(ts))

\* the response texts: up to MaxTokens pieces, as one sequence of characters
Texts == {Flatten(ts) : ts \in UNION {[1..n -> Tokens] : n \in 0..MaxTokens}}

\* index of the first character of cs in b at or after position from, or 0
RECURSIVE IndexOf(_, _, _)
IndexOf(b, cs, from) ==
  IF from > Len(b) THEN 0
  ELSE IF b[from] \in cs THEN from
  ELSE IndexOf(b, cs, from + 1)

\* attributes of an opening delimiter: a flat key-value mapping, as the set of
\* its pairs; raw is the text between the tag name and ">"
RECURSIVE ParseAttributes(_)
ParseAttributes(raw) ==
  IF raw = <<>> THEN {}
  ELSE LET sp == IndexOf(raw, {" "}, 1)
           one == IF sp = 0 THEN raw ELSE SubSeq(raw, 1, sp - 1)
           rest == IF sp = 0 THEN <<>> ELSE SubSeq(raw, sp + 1, Len(raw))
           eq == IndexOf(one, {"="}, 1)
           pair == IF one = <<>> THEN {}
                   ELSE IF eq = 0 THEN {[key |-> one, value |-> <<>>]}
                   ELSE {[key |-> SubSeq(one, 1, eq - 1),
                          value |-> SubSeq(one, eq + 1, Len(one))]}
       IN pair \cup ParseAttributes(rest)

\* text goes to the content of the element on top of the stack, or to the
\* top-level text when the stack is empty
AddText(st, txt) ==
  IF txt = <<>> THEN st
  ELSE IF st.stack = <<>> THEN [st EXCEPT !.top = @ \o txt]
  ELSE [st EXCEPT !.stack[Len(st.stack)].content = @ \o txt]

IsOpeningAnyTag(d) ==
  /\ Len(d) >= 3 /\ d[2] # "/"
  /\ Len(d) = 3 \/ d[3] = " "

IsOpening(d) ==
  /\ Len(d) >= 3 /\ d[2] \in TagNames
  /\ Len(d) = 3 \/ d[3] = " "

IsClosing(st, d) ==
  /\ Len(d) = 4 /\ d[2] = "/" /\ d[3] \in TagNames
  /\ st.stack # <<>> /\ st.stack[Len(st.stack)].tag = d[3]

\* a complete delimiter d = "<" ... ">": an opening delimiter of a recognised
\* tag pushes a partial element; the closing delimiter of the element on top
\* pops it, marks it done and emits it; anything else is literal text
ApplyDelimiter(st, d) ==
  IF IsOpening(d)
  THEN [st EXCEPT !.stack = Append(@, [tag |-> d[2],
                                       attributes |-> ParseAttributes(SubSeq(d, 4, Len(d) - 1)),
                                       content |-> <<>>])]
  ELSE IF IsClosing(st, d)
  THEN LET el == st.stack[Len(st.stack)]
       IN [st EXCEPT !.stack = SubSeq(@, 1, Len(@) - 1),
                     !.out = Append(@, [tag |-> el.tag, attributes |-> el.attributes,
                                        content |-> el.content, done |-> TRUE])]
  ELSE AddText(st, d)

\* what is kept for the next fragment when the buffer ends inside a
\* delimiter: the delimiter read so far
TailDropped(tail) == <<>>
PendingTail(tail) == tail

\* consume the buffer: text up to a "<", then the delimiter up to its ">"; a
\* "<" met before the ">" starts the delimiter again; a delimiter that is not
\* complete yet stays in the buffer
RECURSIVE Scan(_)
Scan(st) ==
  LET b == st.buf
      i == IndexOf(b, {"<"}, 1)
  IN IF b = <<>> THEN st
     ELSE IF i = 0 THEN [AddText(st, b) EXCEPT !.buf = <<>>]
     ELSE LET j == IndexOf(b, {"<", ">"}, i + 1)
              before == AddText(st, SubSeq(b, 1, i - 1))
          IN IF j = 0
             THEN [AddText(before, SubSeq(b, i, Len(b) - Len(PendingTail(SubSeq(b, i, Len(b))))))
                     EXCEPT !.buf = PendingTail(SubSeq(b, i, Len(b)))]
             ELSE IF b[j] = "<"
             THEN Scan([AddText(before, SubSeq(b, i, j - 1))
                          EXCEPT !.buf = SubSeq(b, j, Len(b))])
             ELSE Scan(ApplyDelimiter([before EXCEPT !.buf = SubSeq(b, j + 1, Len(b))],
                                      SubSeq(b, i, j)))

\* one fragment of the stream arrives
FeedFragment(st, frag) == Scan([st EXCEPT !.buf = @ \o frag])

\* the elements still open at the end of the stream, innermost first, as they
\* are, with done = false
RECURSIVE Unterminated(_)
Unterminated(stack) ==
  IF stack = <<>> THEN <<>>
  ELSE LET el == stack[Len(stack)]
       IN <<[tag |-> el.tag, attributes |-> el.attributes,
             content |-> el.content, done |-> FALSE]>>
          \o Unterminated(SubSeq(stack, 1, Len(stack) - 1))

\* end of the stream: a delimiter that never completed is text
EndStream(st) ==
  LET flushed == [AddText(st, st.buf) EXCEPT !.buf = <<>>]
  IN [flushed EXCEPT !.stack = <<>>, !.out = @ \o Unterminated(flushed.stack)]

\* the whole text delivered as a single fragment
AssembleWhole(text) == EndStream(FeedFragment(NewAssembler, text))

\* the completed elements of an assembler, in the order they were emitted
Completed(st) == SelectSeq(st.out, LAMBDA el : el.done)

\* the stream yields its next fragment, of any size
Feed(n) ==
  /\ ~sEnded
  /\ n \in 1..(Len(sText) - sPos)
  /\ sState' = FeedFragment(sState, SubSeq(sText, sPos + 1, sPos + n))
  /\ sPos' = sPos + n
  /\ sCut' = (sCut \/ sState'.buf # <<>>)
  /\ UNCHANGED <<sText, sEnded, agentVars, taskVars, svcVars, startVars>>

\* the stream is exhausted
StreamDone ==
  /\ ~sEnded
  /\ sPos = Len(sText)
  /\ sState' = EndStream(sState)
  /\ sEnded' = TRUE
  /\ UNCHANGED <<sText, sPos, sCut, agentVars, taskVars, svcVars, startVars>>

\* the model answers with any text
InitStream ==
  /\ AgentIdle
  /\ actionRetry = 0
  /\ TasksIdle
  /\ sText \in Texts
  /\ sPos = 0
  /\ sState = NewAssembler
  /\ sEnded = FALSE
  /\ sCut = FALSE
  /\ NoServices
  /\ StartIdle

NextStream ==
  \/ \E n \in 1..(Len(sText) + 1) : Feed(n)
  \/ StreamDone

SpecStream == InitStream /\ [][NextStream]_vars

\* ====================================================== service manager
\* the list createDreams is walking: config.services, then the extensions
ListOf(place) == IF place = "config" THEN "config" ELSE "extensions"

\* the providers createDreams still has to register from a list
ToRegister(place) == {s \in Services : svcPlace[s] = place /\ s \notin registered}

\* serviceManager.register(service): the register method of the provider is
\* called at once; the lists are walked in order
RegisterService(place, s) ==
  /\ building = ListOf(place)
  /\ s \in ToRegister(place)
  /\ \A u \in ToRegister(place) : s <= u
  /\ registered' = registered \cup {s}
  /\ UNCHANGED <<svcPlace, building, bootCalls, starting, startCalls,
                 agentVars, taskVars, streamVars, startVars>>

\* for (const service of services) is through: the extensions are walked
ConfigServicesDone ==
  /\ building = "config"
  /\ ToRegister("config") = {}
  /\ building' = "extensions"
  /\ UNCHANGED <<svcPlace, registered, bootCalls, starting, startCalls,
                 agentVars, taskVars, streamVars, startVars>>

\* for (const extension of extensions) is through: the agent object is made
\* and returned
AgentCreated ==
  /\ building = "extensions"
  /\ ToRegister("extension") = {}
  /\ building' = "done"
  /\ UNCHANGED <<svcPlace, registered, bootCalls, starting, startCalls,
                 agentVars, taskVars, streamVars, startVars>>

\* agent.start is a method of the object createDreams returns
AgentExistsEarly == TRUE
AgentExists == building = "done"

\* if (booted) return agent
AlreadyBootedNever == FALSE
AlreadyBooted == booted

\* agent.start: if (booted) return agent; booted = true;
\* await serviceManager.bootAll()
StartBoot ==
  /\ AgentExists
  /\ startCalls < MaxStarts
  /\ startCalls' = startCalls + 1
  /\ IF AlreadyBooted
     THEN UNCHANGED <<booted, starting, indexAtStart>>
     ELSE booted' = TRUE /\ starting' = "bootAll" /\ indexAtStart' = storeIndex
  /\ UNCHANGED <<totalCalls, settings, onErrorHook, pc, ctxOf, contextsRunning, ctxVars,
                 storeWM, runVars, histVars, respVars, aborted, joinedInto, result>>
  /\ UNCHANGED <<svcPlace, building, registered, bootCalls, taskVars, streamVars>>
  /\ UNCHANGED <<agentContext, agentState, alias, effects, byId>>

\* bootAll calls boot of the registered providers one after the other
BootService(s) ==
  /\ starting = "bootAll"
  /\ s \in registered /\ bootCalls[s] = 0
  /\ \A u \in registered : (bootCalls[u] = 0) => (s <= u)
  /\ bootCalls' = [bootCalls EXCEPT ![s] = @ + 1]
  /\ UNCHANGED <<svcPlace, building, registered, starting, startCalls,
                 agentVars, taskVars, streamVars, startVars>>

\* bootAll resolved: agent.start goes on to install the extensions
BootAllDone ==
  /\ starting = "bootAll"
  /\ \A s \in registered : bootCalls[s] > 0
  /\ starting' = "extensions"
  /\ UNCHANGED <<svcPlace, building, registered, bootCalls, startCalls,
                 agentVars, taskVars, streamVars, startVars>>

\* one of the loops of agent.start is through: every install (and subscribe)
\* of the list was called and awaited
StartPhase(from, to, done) ==
  /\ starting = from
  /\ starting' = to
  /\ effects' = [e \in Effects |-> IF e \in done THEN effects[e] + 1 ELSE effects[e]]
  /\ UNCHANGED <<svcPlace, building, registered, bootCalls, startCalls,
                 agentVars, taskVars, streamVars>>
  /\ UNCHANGED <<agentContext, agentState, alias, byId, indexAtStart>>

\* for (const extension of extensions) if (extension.install) await extension.install(agent)
InstallExtensions ==
  /\ starting = "extensions"
  /\ StartPhase("extensions", "inputs", {"extensions"})

\* for each input: await input.install(agent); input.subscribe(callback, agent)
SetupInputs ==
  /\ starting = "inputs"
  /\ StartPhase("inputs", "outputs", {"inputs", "subscribe"})

\* for each output: await output.install(agent)
InstallOutputs ==
  /\ starting = "outputs"
  /\ StartPhase("outputs", "actions", {"outputs"})

\* for each action: await action.install(agent); then
\* agent.memory.store.get("contexts") is called
InstallActions ==
  /\ starting = "actions"
  /\ StartPhase("actions", "loadIndex", {"actions"})

\* store.get("contexts") resolved: for (const id of savedContexts)
\* contextIds.add(id); if (agent.context) agent.getContext(...) runs up to its
\* first await: it returns the state of the contexts map or goes to load and
\* create one
RestoreContexts ==
  /\ starting = "loadIndex"
  /\ contextIds' = contextIds \cup storeIndex
  /\ effects' = [effects EXCEPT !["restore"] = @ + 1]
  /\ IF ~agentContext
     THEN starting' = "done" /\ UNCHANGED agentState
     ELSE IF contexts[AgentCtxId] # NoProc
          THEN starting' = "agentContext" /\ agentState' = contexts[AgentCtxId]
          ELSE starting' = "agentCreate" /\ UNCHANGED agentState
  /\ UNCHANGED <<cfgVars, callVars, contexts, ctxState, storeState, storeIndex>>
  /\ UNCHANGED <<taskVars, streamVars, svcPlace, building, registered, bootCalls, startCalls>>
  /\ UNCHANGED <<agentContext, alias, byId, indexAtStart>>

\* agent.getContext of agent.start: loadContextState and createContextState
\* resolved, saveContext(state) starts
StartCreateContext ==
  /\ starting = "agentCreate"
  /\ SaveContextSync(AgentCtxId, StateOf(AgentCtxId))
  /\ starting' = "agentSave"
  /\ UNCHANGED <<cfgVars, callVars, ctxState, storeState, storeIndex>>
  /\ UNCHANGED <<taskVars, streamVars, svcPlace, building, registered, bootCalls, startCalls>>
  /\ UNCHANGED startVars

\* saveContext resolved: return contexts.get(id)
StartSaveContext ==
  /\ starting = "agentSave"
  /\ SaveContextStore(AgentCtxId)
  /\ agentState' = contexts[AgentCtxId]
  /\ starting' = "agentContext"
  /\ UNCHANGED <<cfgVars, callVars, contexts, contextIds, ctxState>>
  /\ UNCHANGED <<taskVars, streamVars, svcPlace, building, registered, bootCalls, startCalls>>
  /\ UNCHANGED <<agentContext, alias, effects, byId, indexAtStart>>

\* await agent.getContext resolved: contexts.set("agent:context", agentState);
\* return agent
SetAgentContext ==
  /\ starting = "agentContext"
  /\ alias' = agentState
  /\ starting' = "done"
  /\ UNCHANGED <<svcPlace, building, registered, bootCalls, startCalls,
                 agentVars, taskVars, streamVars>>
  /\ UNCHANGED <<agentContext, agentState, effects, byId, indexAtStart>>

\* an awaited call of agent.start rejected (a boot, an install, the store):
\* agent.start rejects; booted stays true
StartFails ==
  /\ starting \in {"bootAll", "extensions", "inputs", "outputs", "actions", "loadIndex",
                    "agentCreate", "agentSave"}
  /\ starting' = "failed"
  /\ UNCHANGED <<svcPlace, building, registered, bootCalls, startCalls,
                 agentVars, taskVars, streamVars, startVars>>

\* createDreams is called with any choice of providers in config.services and
\* in the services of its extensions
InitServices ==
  /\ AgentIdle
  /\ actionRetry = 0
  /\ TasksIdle
  /\ StreamIdle
  /\ svcPlace \in [Services -> {"config", "extension", "none"}]
  /\ building = "config"
  /\ registered = {}
  /\ bootCalls = [s \in Services |-> 0]
  /\ starting = "none"
  /\ startCalls = 0
  /\ agentContext \in BOOLEAN
  /\ agentState = NoProc
  /\ alias = NoProc
  /\ effects = [e \in Effects |-> 0]
  /\ byId = [c \in Ctxs |-> "none"]
  /\ indexAtStart = {}

NextServices ==
  \/ \E place \in {"config", "extension"}, s \in Services : RegisterService(place, s)
  \/ ConfigServicesDone
  \/ AgentCreated
  \/ StartBoot
  \/ \E s \in Services : BootService(s)
  \/ BootAllDone
  \/ InstallExtensions
  \/ SetupInputs
  \/ InstallOutputs
  \/ InstallActions
  \/ RestoreContexts
  \/ StartCreateContext
  \/ StartSaveContext
  \/ SetAgentContext
  \/ StartFails

SpecServices == InitServices /\ [][NextServices]_vars

\* ------------------------------------------------ agent.getContextById
\* getContextById(id) for an id that is in contextIds but not in the contexts
\* map, of a registered context type: loadContextState is awaited (in every
\* other case the call returns without a change; the store holds the state of
\* every id of its index, so the snapshot is found)
GetContextById(c) ==
  /\ contexts[c] = NoProc
  /\ c \in contextIds
  /\ byId[c] = "none"
  /\ byId' = [byId EXCEPT ![c] = "loading"]
  /\ UNCHANGED <<agentVars, taskVars, streamVars, svcVars>>
  /\ UNCHANGED <<agentContext, agentState, alias, effects, indexAtStart>>

\* loadContextState and createContextState resolved: saveContext(state) starts
LoadedContext(c) ==
  /\ byId[c] = "loading"
  /\ c \in storeState
  /\ SaveContextSync(c, StateOf(c))
  /\ byId' = [byId EXCEPT ![c] = "saving"]
  /\ UNCHANGED <<cfgVars, callVars, ctxState, storeState, storeIndex>>
  /\ UNCHANGED <<taskVars, streamVars, svcVars>>
  /\ UNCHANGED <<agentContext, agentState, alias, effects, indexAtStart>>

\* saveContext resolved: return state
SavedLoadedContext(c) ==
  /\ byId[c] = "saving"
  /\ SaveContextStore(c)
  /\ byId' = [byId EXCEPT ![c] = "none"]
  /\ UNCHANGED <<cfgVars, callVars, contexts, contextIds, ctxState>>
  /\ UNCHANGED <<taskVars, streamVars, svcVars>>
  /\ UNCHANGED <<agentContext, agentState, alias, effects, indexAtStart>>

\* ------------------------------------------- agent.start and the calls
\* an agent without service providers, with or without an agent context, whose
\* store holds the contexts a former agent saved; its contexts have
\* maxSteps = 1 and no onError hook
InitStart ==
  /\ AgentNew
  /\ settings = {1}
  /\ ~onErrorHook
  /\ storeState \in SUBSET Ctxs
  /\ storeIndex = storeState
  /\ actionRetry = 0
  /\ TasksIdle
  /\ StreamIdle
  /\ NoServices
  /\ agentContext \in BOOLEAN
  /\ agentState = NoProc
  /\ alias = NoProc
  /\ effects = [e \in Effects |-> 0]
  /\ byId = [c \in Ctxs |-> "none"]
  /\ indexAtStart = {}

\* agent.start, agent.getContextById and one agent.send call, of a caller or of
\* a subscribed input
NextStart ==
  \/ StartBoot
  \/ BootAllDone
  \/ InstallExtensions
  \/ SetupInputs
  \/ InstallOutputs
  \/ InstallActions
  \/ RestoreContexts
  \/ StartCreateContext
  \/ StartSaveContext
  \/ SetAgentContext
  \/ StartFails
  \/ \E c \in Ctxs :
       \/ GetContextById(c)
       \/ LoadedContext(c)
       \/ SavedLoadedContext(c)
  \/ \E p \in {FirstCall} :
       \/ RunNotBooted(p)
       \/ \E c \in Ctxs : RunAnyContext(p, c)
       \/ CreateContextState(p)
       \/ SaveNewContext(p)
       \/ RunAgentContextMissing(p)
       \/ RegisterRun(p)
       \/ StateStart(p)
       \/ RunSetupThrows(p)
       \/ PushChain(p)
       \/ ModelOk(p)
       \/ StepThrows(p)
       \/ StreamErrorThrown(p)
       \/ SaveWM1(p)
       \/ CallsSettled(p)
       \/ SaveWM2(p)
       \/ OnStep(p)
       \/ StepEnd(p)
       \/ CatchSave(p)
       \/ OnRun(p)
       \/ CompletionThrows(p)
       \/ FinalSave(p)
       \/ Abort(p)

SpecStart == InitStart /\ [][NextStart]_vars

\* ================================================================ claims
Returns(p) == pc[p] = "finalSave" /\ pc'[p] = "done"

\* C1: at every moment there is at most one active run per context id: two
\* calls that are both inside a run never have the same context id, and every
\* active run is the entry contextsRunning holds for its id.
C1_SingleFlight ==
  \A p \in Procs : pc[p] \in InRun =>
    /\ contextsRunning[ctxOf[p]] = p
    /\ \A q \in Procs : (q # p /\ pc[q] \in InRun) => ctxOf[q] # ctxOf[p]

\* a second call for the id of an active run passed the running check
C1_Witness ==
  \E p, q \in Procs :
    p # q /\ pc[p] \in InRun /\ pc[q] = "joined" /\ ctxOf[q] = ctxOf[p] /\ joinedInto[q] = p

\* C2: a call that finds an entry for its context id pushes its chain through
\* the push of that entry, creates no stream handler or step loop, enqueues no
\* model call and leaves contextsRunning unchanged.
C2_JoinFrame ==
  [][\A p \in Procs :
       (pc[p] = "getWM" /\ contextsRunning[ctxOf[p]] # NoProc /\ pc'[p] # "getWM") =>
          /\ pc'[p] = "joined"
          /\ InputLog(p) \in chain'[contextsRunning[ctxOf[p]]]
          /\ wm'[contextsRunning[ctxOf[p]]][InputLog(p)] = "unprocessed"
          /\ contextsRunning' = contextsRunning
          /\ totalCalls' = totalCalls /\ modelCalls' = modelCalls
          /\ \A q \in Procs : pc'[q] \in InRun => pc[q] \in InRun]_vars

\* a call returned [] after its input went into the chain of the running run
C2_Witness ==
  \E p \in Procs :
    /\ pc[p] = "joined" /\ result[p] = "empty"
    /\ joinedInto[p] # NoProc /\ InputLog(p) \in chain[joinedInto[p]]
    /\ contextsRunning[ctxOf[p]] = joinedInto[p]

\* C3: every input joined into a running run has been shown as an unprocessed
\* log in a prompt of that run by the time the run returns.
C3_JoinedInputRendered ==
  [][\A p \in Procs : Returns(p) =>
       \A j \in Procs : joinedInto[j] = p => InputLog(j) \in rendered[p]]_vars

\* C4: a run that registered an entry and stopped, by returning or by throwing,
\* has no entry left in contextsRunning.
C4_EntryRemovedOnExit ==
  \A p \in Procs : pc[p] \in {"done", "threw"} => contextsRunning[ctxOf[p]] # p

\* C5: with maxSteps = k >= 1, shouldContinue always true, no abort and no
\* error, a run that reached completion made exactly k model calls, at
\* state.step = 1..k.
C5_ExactlyKSteps ==
  \A p \in Procs :
    (pc[p] \in {"onRun", "finalSave"} /\ ~errored[p] /\ ~aborted[p] /\ ~scFalse[p]
       /\ getMaxSteps >= 1)
    => (modelCalls[p] = getMaxSteps /\ stepsRun[p] = 1..getMaxSteps)

\* an undisturbed run of MaxStepsBound steps is about to return
C5_Witness ==
  \E p \in Procs :
    /\ pc[p] = "finalSave" /\ ~errored[p] /\ ~aborted[p] /\ ~scFalse[p]
    /\ getMaxSteps = MaxStepsBound /\ modelCalls[p] = MaxStepsBound

\* C6: after a successfully finished step the run stops if the abort signal is
\* aborted, or shouldContinue() returned false, or the step was step number
\* maxSteps; otherwise state.step advances by one and one more step is started.
C6_Continuation ==
  [][\A p \in Procs :
       (pc[p] = "saveCtx" /\ pc'[p] \notin {"saveCtx", "catchSave"}) =>
          IF aborted[p] \/ scFalse'[p] \/ step[p] = getMaxSteps
          THEN pc'[p] = "onRun" /\ totalCalls' = totalCalls
          ELSE step'[p] = step[p] + 1 /\ pc'[p] = "newStep"]_vars

\* a run went on to its second step
C6_Witness ==
  \E p \in Procs : pc[p] = "newStep" /\ step[p] = InitialStep + 1 /\ ~errored[p]

\* C7: a step exception with no onError hook, or with an onError hook that
\* throws, starts no further step: the run marks its logs processed, goes to the
\* onRun hooks and, unless completion itself fails, returns the chain.
C7_Breaks(p) ==
  /\ pc'[p] = "onRun"
  /\ endedByError'[p]
  /\ totalCalls' = totalCalls
  /\ \A l \in chain[p] : wm'[p][l] = "processed"

C7_ErrorEndsRun ==
  [][\A p \in Procs :
       /\ (pc[p] = "catchSave" /\ ~onErrorHook /\ pc'[p] # "catchSave") => C7_Breaks(p)
       /\ (pc[p] = "onError" /\ pc'[p] # "onError" /\ lastOnError'[p] = "threw")
            => C7_Breaks(p)
       /\ (endedByError[p] /\ pc'[p] # pc[p]) =>
            /\ pc[p] \in {"onRun", "finalSave"}
            /\ pc'[p] \in {"finalSave", "done", "threw"}
            /\ totalCalls' = totalCalls
            /\ (pc'[p] = "done" => result'[p] = "chain")]_vars

\* a run is about to return after its onError hook threw
C7_Witness ==
  \E p \in Procs : pc[p] = "finalSave" /\ endedByError[p] /\ lastOnError[p] = "threw"

\* C8: the step loop of a run makes at most maxSteps model calls, also when
\* steps fail and the onError hook returns normally.
C8_AtMostMaxStepsCalls ==
  \A p \in Procs : modelCalls[p] <= getMaxSteps

\* C9: when a run that ended early because of a step error returns, the
\* ContextState and the WorkingMemory have both been written to the store
\* after the error.
C9_FlushedAfterError ==
  [][\A p \in Procs : (Returns(p) /\ endedByError[p]) =>
       /\ ctxOf[p] \in storeState'
       /\ "wm" \in savedAfterError[p]]_vars

\* C10: after every successfully finished step, and when agent.run returns,
\* the WorkingMemory snapshot in the store equals the WorkingMemory in memory.
C10_SnapshotCurrent ==
  [][\A p \in Procs :
       /\ (pc[p] = "saveCtx" /\ pc'[p] \notin {"saveCtx", "catchSave"})
            => storeWM[ctxOf[p]] = wm[p]
       /\ Returns(p) => storeWM[ctxOf[p]] = wm[p]]_vars

\* C11: when agent.run returns the chain of its run, every log of the chain and
\* every entry of workingMemory.inputs has processed = true, whatever calls for
\* the same context id ran beside it.
C11_AllProcessedAtReturn ==
  [][\A p \in Procs : Returns(p) =>
       \A l \in Logs : (l \in chain[p] \/ (l.kind = "input" /\ wm[p][l] # "absent"))
                          => wm[p][l] = "processed"]_vars

\* C16: once the abort signal of a run has fired, the run enqueues no further
\* model call (and goes on to completion), whatever hooks the context defines.
C16_NoModelCallAfterAbort ==
  [][\A p \in Procs : aborted[p] => modelCalls'[p] <= modelCalls[p]]_vars

C19_JoinResolvesWithRun ==
  \A p \in Procs :
    pc[p] = "joined" => (result[p] = "chain" /\ pc[joinedInto[p]] = "done")

\* C20: for one context id the ContextState is created at most once (an
\* object in the contexts map is never replaced by another one) and all
\* agent.getContext calls for the id return the same object.
C20_CreatedOnce ==
  [][/\ \A c \in Ctxs : contexts[c] # NoProc => contexts'[c] = contexts[c]
     /\ \A p, q \in Procs :
          (ctxState'[p] # NoProc /\ ctxState'[q] # NoProc /\ ctxOf'[p] = ctxOf'[q])
            => ctxState'[p] = ctxState'[q]]_vars

\* C12: every action call dispatched during a run eventually has exactly one
\* ActionResult in the WorkingMemory, also when its handler throws, unless the
\* abort signal of the run fires.
C12_ToolPairing ==
  /\ [](\A t \in Tasks : results[t] <= 1)
  /\ \A t \in Tasks :
       (tKind[t] = "action") ~> (results[t] = 1 \/ signalAborted["c1"])

\* an action call whose handler failed for good has its one result
C12_Witness ==
  \E t \in Tasks : tStatus[t] = "failed" /\ results[t] = 1 /\ ~signalAborted["c1"]

\* C13: never more than taskRunnerConcurrency tasks run at once, model calls
\* and action handlers of all runs counted together; a task waits in the queue
\* exactly while it is neither started nor dropped, and only when the limit of
\* running tasks is reached.
C13_ConcurrencyBound ==
  /\ Cardinality(Running(tStatus)) <= taskRunnerConcurrency
  /\ \A t \in Tasks : tStatus[t] = "queued" <=> \E i \in 1..Len(queue) : queue[i] = t
  /\ queue # <<>> => Cardinality(Running(tStatus)) = taskRunnerConcurrency

\* a model call and action handlers of both runs fill the TaskRunner and one
\* more task waits
C13_Witness ==
  /\ Cardinality(Running(tStatus)) = taskRunnerConcurrency
  /\ queue # <<>>
  /\ \E t, u \in Running(tStatus) :
       /\ tKind[t] = "generate" /\ tKind[u] = "action"
       /\ tOwner[t] # tOwner[u]

\* C14: a task whose function throws is attempted again while its retry count
\* allows, at most retry + 1 times in all, and settles exactly once: ok at its
\* first successful attempt, failed when attempt retry + 1 has thrown; a
\* settled task is never attempted or settled again.
C14_RetryThenSettleOnce ==
  [][\A t \in Tasks :
       /\ tStatus[t] = "running" =>
            /\ tAttempts[t] <= retryOf(t) + 1
            /\ tStatus'[t] \in {"running", "ok", "failed"}
            /\ (tStatus'[t] = "running" /\ tAttempts'[t] # tAttempts[t]) =>
                  (tAttempts'[t] = tAttempts[t] + 1 /\ tAttempts[t] <= retryOf(t))
            /\ tStatus'[t] = "failed" => tAttempts[t] = retryOf(t) + 1
            /\ tStatus'[t] \in {"ok", "failed"} =>
                  (tSettled[t] = 0 /\ tSettled'[t] = 1 /\ tAttempts'[t] = tAttempts[t])
       /\ tStatus[t] \in {"ok", "failed"} =>
            /\ tStatus'[t] = tStatus[t]
            /\ tAttempts'[t] = tAttempts[t]
            /\ tSettled'[t] = 1]_vars

\* an action with retry = MaxRetry settled ok at attempt MaxRetry + 1
C14_Witness ==
  \E t \in Tasks :
    /\ actionRetry = MaxRetry
    /\ tStatus[t] = "ok" /\ tAttempts[t] = MaxRetry + 1
    /\ tSettled[t] = 1 /\ results[t] = 1

\* C15: when an abort signal fires, every queued task enqueued with it is
\* dropped; no task waits in the queue under a signal that has fired, and a
\* dropped task never begins executing.
C15_QueuedDroppedOnAbort ==
  [][\A t \in Tasks :
       /\ (tStatus[t] = "queued" /\ signalAborted'[tOwner[t]]) => tStatus'[t] = "dropped"
       /\ tStatus'[t] = "queued" => ~signalAborted'[tOwner'[t]]
       /\ tStatus[t] = "dropped" => (tStatus'[t] = "dropped" /\ tAttempts'[t] = 0)
       /\ tStatus'[t] = "dropped" => tAttempts'[t] = 0]_vars

\* the task of run c2 waited behind three running tasks of run c1 and was
\* dropped when the signal of c2 fired
C15_Witness ==
  /\ signalAborted["c2"] /\ ~signalAborted["c1"]
  /\ \A t \in 1..taskRunnerConcurrency : tStatus[t] = "running" /\ tOwner[t] = "c1"
  /\ tStatus[taskRunnerConcurrency + 1] = "dropped"
  /\ tAttempts[taskRunnerConcurrency + 1] = 0

\* C17: however a complete response text is split into fragments, the stream
\* assembler emits the same ordered sequence of completed elements (tag,
\* attributes, content): the sequence it emits for the text as one fragment.
C17_ChunkInvariance ==
  sEnded => Completed(sState) = Completed(AssembleWhole(sText))

\* a text with a completed element that has an attribute and content reached
\* the end of the stream after a fragment had ended inside a delimiter
C17_Witness ==
  /\ sEnded
  /\ sCut
  /\ \E i \in 1..Len(sState.out) :
       /\ sState.out[i].done
       /\ sState.out[i].attributes # {}
       /\ sState.out[i].content # <<>>

\* C22: the entry of a run leaves contextsRunning only in the step that ends
\* its final saveContext, which comes after its onRun hooks, which come after
\* the marking of all logs as processed; while an entry is there, a call for
\* its context id that reaches the running check joins and leaves the map alone.
C22_EntryRemovedLast ==
  [][\A p \in Procs :
       /\ (contextsRunning[ctxOf[p]] = p /\ contextsRunning'[ctxOf[p]] # p) =>
             /\ pc[p] = "finalSave" /\ pc'[p] = "done"
             /\ contextsRunning'[ctxOf[p]] = NoProc
             /\ ctxOf[p] \in storeState'
       /\ (pc'[p] = "finalSave" /\ pc[p] # "finalSave") => pc[p] = "onRun"
       /\ (pc'[p] = "onRun" /\ pc[p] # "onRun") =>
             \A l \in Logs :
               (l \in chain[p] \/ (l.kind = "input" /\ wm[p][l] # "absent"))
                 => wm'[p][l] = "processed"
       /\ (pc[p] = "getWM" /\ pc'[p] # "getWM" /\ contextsRunning[ctxOf[p]] # NoProc) =>
             /\ pc'[p] = "joined"
             /\ contextsRunning' = contextsRunning]_vars

\* a call joined a run that had marked its logs processed and was awaiting its
\* final saveContext
C22_Witness ==
  \E p, q \in Procs :
    /\ pc[p] = "finalSave" /\ contextsRunning[ctxOf[p]] = p
    /\ joinedInto[q] = p /\ wm[p][InputLog(q)] = "unprocessed"
    /\ wm[p][InputLog(p)] = "processed"

\* the awaits of one step, from the model call to the saveContext of the step
StepPcs == {"model", "saveWM1", "awaitCalls", "saveWM2", "onStep", "saveCtx"}

\* C25: unprocessed is the set of logs of workingMemory.inputs and state.chain
\* that are unprocessed when the prompt is rendered; a successful step marks
\* exactly these processed, and a log that arrives during the step is still
\* unprocessed when the step ends.
C25_StepMarksSnapshot ==
  [][\A p \in Procs :
       /\ (pc'[p] = "model" /\ pc[p] # "model") =>
             unprocessed'[p] = {l \in Logs : /\ wm'[p][l] = "unprocessed"
                                             /\ (l.kind = "input" \/ l \in chain'[p])}
       /\ (pc[p] = "model" /\ pc'[p] = "saveWM1") =>
             \A l \in Logs :
               wm'[p][l] = IF l \in unprocessed[p] THEN "processed" ELSE wm[p][l]
       /\ (pc[p] \in StepPcs /\ pc'[p] \in StepPcs) =>
             \A l \in Logs :
               (wm'[p][l] = "processed" /\ wm[p][l] # "processed") => l \in unprocessed[p]]_vars

\* at the end of a step the input of the run is processed and an input that
\* joined during the step is not
C25_Witness ==
  \E p, q \in Procs :
    /\ pc[p] = "saveCtx" /\ joinedInto[q] = p
    /\ wm[p][InputLog(q)] = "unprocessed" /\ InputLog(q) \notin unprocessed[p]
    /\ wm[p][InputLog(p)] = "processed" /\ InputLog(p) \in unprocessed[p]

\* C26: a step whose model stream reported an error has the response on its
\* StepRef, marks no log processed (neither the logs of its prompt nor the
\* StepRef), never reaches the await of state.calls, and goes to the catch block.
C26_StreamErrorStep ==
  [][\A p \in Procs :
       /\ (streamError'[p] /\ ~streamError[p]) =>
             /\ pc[p] = "model" /\ pc'[p] = "catchSave"
             /\ response'[p]
             /\ errored'[p]
             /\ wm'[p] = wm[p]
       /\ streamError[p] => pc[p] \in {"catchSave", "onError"}
       /\ (streamError[p] /\ streamError'[p]) =>
             \A l \in Logs : wm'[p][l] = "processed" => wm[p][l] = "processed"]_vars

\* the onError hook runs after a stream error: the response is recorded, the
\* input and the StepRef of the step are unprocessed
C26_Witness ==
  \E p \in Procs :
    /\ streamError[p] /\ pc[p] = "onError" /\ response[p]
    /\ wm[p][InputLog(p)] = "unprocessed"
    /\ wm[p][StepLog(p, stepRefs[p])] = "unprocessed"

\* C27: the catch block is entered from a step, calls saveContext for the
\* context there, and only when these saves have settled, with or without
\* success, invokes the onError hook, if there is one; the hook is invoked once
\* for each entry into the catch block.
C27_SavedBeforeOnError ==
  [][\A p \in Procs :
       /\ (pc'[p] = "catchSave" /\ pc[p] # "catchSave") =>
             /\ pc[p] \in {"newStep", "model", "onStep", "saveCtx"}
             /\ contexts'[ctxOf[p]] = ctxState[p]
             /\ ctxOf[p] \in contextIds'
       /\ (pc[p] = "catchSave" /\ pc'[p] # "catchSave") => pc'[p] \in {"onError", "onRun"}
       /\ (pc'[p] = "onError" /\ pc[p] # "onError") =>
             /\ pc[p] = "catchSave" /\ onErrorHook
             /\ storeState' # storeState => ctxOf[p] \in storeState'
       /\ (pc[p] = "onError" /\ pc'[p] # "onError") =>
             /\ pc'[p] \in {"onRun", "newStep", "model"}
             /\ lastOnError'[p] \in {"threw", "returned"}]_vars

\* the hook is invoked for a second failed step after the save of the
\* ContextState, and once more after a save that failed
C27_Witness ==
  \E p \in Procs :
    /\ pc[p] = "onError" /\ lastOnError[p] = "returned"
    /\ "ctx" \notin savedAfterError[p]

C30_NotBootedNoEffect ==
  [][\A p \in Procs :
       (pc[p] = "idle" /\ ~booted /\ pc'[p] # "idle") =>
          /\ pc'[p] = "threw" /\ result'[p] = "NotBooted"
          /\ UNCHANGED <<booted, ctxVars, storeWM, contextsRunning, totalCalls, runVars,
                         joinedInto, taskVars>>]_vars

\* a call made before agent.start threw and a later call is running
C30_Witness ==
  \E p, q \in Procs :
    /\ pc[p] = "threw" /\ result[p] = "NotBooted"
    /\ pc[q] \in InRun /\ ctxState[q] # NoProc

\* C23: a step gets past its await of state.calls only when every action call
\* dispatched in it has settled (ok, failed or dropped); an action call that
\* fails leaves the step where it is, and the catch block is entered only for
\* the model call or its stream, never for an action call.
C23_StepWaitsForCalls ==
  /\ []((phase["c1"] = "stepDone") =>
          \A t \in Tasks : (t < nextTask) => (tStatus[t] \in {"ok", "failed", "dropped"}))
  /\ [][/\ \A t \in Tasks :
             (tKind[t] = "action" /\ tStatus'[t] = "failed" /\ tStatus[t] # "failed")
               => phase' = phase
        /\ (phase'["c1"] = "catch" /\ phase["c1"] # "catch") =>
              /\ phase["c1"] \in {"ready", "model", "stream"}
              /\ \A t \in Tasks : (tKind[t] = "action") => (tStatus'[t] = tStatus[t])]_vars

\* the step got past the await although one of its action calls had failed
C23_Witness ==
  /\ phase["c1"] = "stepDone"
  /\ \E t, u \in Tasks : /\ tStatus[t] = "failed" /\ results[t] = 1
                          /\ tStatus[u] = "ok" /\ results[u] = 1

\* C24: when agent.run has returned, none of the action calls its steps
\* dispatched is still pending, also after a step that ended with a stream error.
C24_NoPendingAtReturn ==
  phase["c1"] = "returned" => PendingCalls("c1") = {}

\* the part of the response the assembler has dealt with: what was delivered,
\* without the unfinished delimiter it still buffers
Consumed == SubSeq(sText, 1, sPos - Len(sState.buf))

\* positions of x where an opening delimiter of a tag of the vocabulary starts:
\* "<", the tag name, then ">" at once or a blank and attribute text up to ">"
Openings(x) ==
  {i \in 1..Len(x) :
     /\ x[i] = "<" /\ i + 2 <= Len(x) /\ x[i + 1] \in TagNames
     /\ \E j \in (i + 2)..Len(x) :
          /\ x[j] = ">"
          /\ \A k \in (i + 2)..(j - 1) : x[k] \notin {"<", ">"}
          /\ j = i + 2 \/ x[i + 2] = " "}

\* positions of x where a closing delimiter of a tag of the vocabulary starts
Closings(x) ==
  {i \in 1..Len(x) :
     /\ i + 3 <= Len(x)
     /\ x[i] = "<" /\ x[i + 1] = "/" /\ x[i + 2] \in TagNames /\ x[i + 3] = ">"}

\* C29: every element the assembler holds or has emitted was opened by an
\* opening delimiter of a tag of the vocabulary, one element for each such
\* delimiter; an element is done only through a closing delimiter of its own,
\* and before the end of the stream only done elements are emitted; at the end
\* the elements still open are emitted with done = false; a text without an
\* opening delimiter of the vocabulary is literal text altogether.
C29_DoneOnlyWhenClosed ==
  /\ \A i \in 1..Len(sState.out) : sState.out[i].tag \in TagNames
  /\ \A i \in 1..Len(sState.stack) : sState.stack[i].tag \in TagNames
  /\ Len(sState.out) + Len(sState.stack) = Cardinality(Openings(Consumed))
  /\ Len(Completed(sState)) <= Cardinality(Closings(Consumed))
  /\ ~sEnded => Completed(sState) = sState.out
  /\ sEnded => sState.stack = <<>> /\ sState.buf = <<>>
  /\ (sEnded /\ Openings(sText) = {}) => (sState.out = <<>> /\ sState.top = sText)

\* at the end of a stream with an unrecognised tag, a closed element and an
\* element left open: literal text, one element done, one not
C29_Witness ==
  /\ sEnded
  /\ sState.top # <<>> /\ Closings(sText) # {}
  /\ \E i, j \in 1..Len(sState.out) : sState.out[i].done /\ ~sState.out[j].done
  /\ \E i \in 1..Len(sText) : sText[i] = "<" /\ i < Len(sText) /\ sText[i + 1] = "k"

\* C21: when the boot of a service provider is invoked, every provider listed
\* in config.services or in the services of an extension has been registered,
\* and the invocation is a step of the bootAll of agent.start.
C21_BootAfterAllRegistered ==
  /\ []((\E s \in Services : bootCalls[s] > 0) =>
          (booted /\ \A s \in Services : (svcPlace[s] # "none") => (s \in registered)))
  /\ [][(bootCalls' # bootCalls) => (booted /\ starting = "bootAll")]_vars

\* providers of config.services and of an extension have all been booted
C21_Witness ==
  /\ starting = "done"
  /\ \E s, u \in Services : svcPlace[s] = "config" /\ svcPlace[u] = "extension"
  /\ \A s \in Services : (svcPlace[s] # "none") => (bootCalls[s] = 1)

\* C35: in a fresh run the first model call is enqueued only after the pushes
\* of the chain have resolved and every action call these pushes dispatched
\* has settled.
C35_ChainSettledBeforeModel ==
  /\ []((phase["c1"] = "ready") => (PendingCalls("c1") = {}))
  /\ [][/\ (phase'["c1"] = "ready" /\ phase["c1"] # "ready") => (phase["c1"] = "initialCalls")
        /\ (phase'["c1"] = "initialCalls" /\ phase["c1"] # "initialCalls") =>
              (phase["c1"] = "pushChain")
        /\ \A t \in Tasks :
             (tKind'[t] = "generate" /\ tKind[t] # "generate") =>
                /\ phase["c1"] = "ready"
                /\ \A u \in Tasks : (u < t) => (tStatus[u] \in {"ok", "failed", "dropped"})]_vars

\* the model call runs after two action calls dispatched by the pushes of the
\* chain, one of which failed
C35_Witness ==
  /\ phase["c1"] = "model"
  /\ \E t, u, g \in Tasks :
       /\ t < g /\ u < g
       /\ tStatus[t] = "failed" /\ tStatus[u] = "ok"
       /\ tKind[g] = "generate" /\ tStatus[g] = "running"

\* settings.maxSteps as it is now, 5 when it is undefined
MaxStepsNow == IF settings = {} THEN DefaultMaxSteps ELSE CHOOSE k \in settings : TRUE

\* C36: every test of the loop reads settings.maxSteps anew: the loop goes on
\* to step k only if k is at most the value the setting has at that moment,
\* and goes to completion otherwise; with maxSteps = 0 at the first test the
\* run enqueues no model call and completes; a run that returns has removed
\* its entry.
C36_StepLimitReRead ==
  [][\A p \in Procs :
       /\ (pc[p] \in {"pushChain", "saveCtx", "onError"}
             /\ pc'[p] \in {"model", "newStep"}) => (step'[p] <= MaxStepsNow)
       /\ (pc[p] \in {"pushChain", "onError"} /\ pc'[p] = "onRun" /\ ~endedByError'[p])
             => (step'[p] > MaxStepsNow /\ totalCalls' = totalCalls)
       /\ (modelCalls'[p] > modelCalls[p]) =>
             (pc[p] \in {"pushChain", "saveCtx", "onError", "newStep"} /\ step'[p] \in stepsRun'[p])
       /\ (pc[p] = "pushChain" /\ MaxStepsNow = 0 /\ pc'[p] \notin {"pushChain", "threw"}) =>
             (pc'[p] = "onRun" /\ modelCalls'[p] = 0 /\ totalCalls' = totalCalls)
       /\ Returns(p) => (contextsRunning'[ctxOf[p]] = NoProc)]_vars

\* a run found maxSteps = 0 at its first test, made no model call and is about
\* to return; the setting has become undefined since
C36_Witness ==
  \E p \in Procs :
    /\ pc[p] = "finalSave" /\ modelCalls[p] = 0 /\ ~errored[p]
    /\ settings = {}

\* C31: the boot of the services, the installation of the extensions, inputs,
\* outputs and actions, the subscription of the inputs and the restoring of
\* the saved contexts are performed at most once per agent; a call of
\* agent.start made after the first one, also while the first is in progress or
\* after it failed, changes nothing but the count of the calls.
C31_StartOnce ==
  /\ [](\A e \in Effects : effects[e] <= 1)
  /\ [](\A s \in Services : bootCalls[s] <= 1)
  /\ [][(startCalls' > startCalls /\ booted) =>
          UNCHANGED <<agentVars, taskVars, streamVars, svcPlace, building, registered,
                      bootCalls, starting, startVars>>]_vars

\* a second call of agent.start was made and the first one failed after the
\* inputs were subscribed
C31_Witness ==
  /\ startCalls = MaxStarts /\ starting = "failed"
  /\ effects["subscribe"] = 1 /\ effects["outputs"] = 0
  /\ \E s \in Services : bootCalls[s] = 1

\* C32: no stream handler is created and no model call is enqueued before
\* agent.start has completed all its phases, the restoring of the saved
\* context ids and the agent context included.
C32_NoRunBeforeStarted ==
  [][\A p \in Procs :
       ((pc'[p] = "start" /\ pc[p] # "start") \/ modelCalls'[p] > modelCalls[p])
          => (starting = "done")]_vars

\* C33: every context id of the stored index at the beginning of agent.start
\* is in contextIds once agent.start has completed, and no write of the index
\* omits an id the index held before.
C33_IndexKept ==
  /\ []((starting = "done") => (indexAtStart \subseteq contextIds))
  /\ [][storeIndex \subseteq storeIndex']_vars

\* C34: every key of the contexts map other than the "agent:context" alias is
\* in contextIds and maps to a ContextState whose id is the key, and
\* contextIds never loses a member.
C34_ContextsIndexed ==
  /\ [](\A c \in Ctxs : (contexts[c] # NoProc) =>
           (c \in contextIds /\ StateId(contexts[c]) = c))
  /\ [][contextIds \subseteq contextIds']_vars

\* agent.start is through with the alias set to a state a run made during
\* agent.start, and getContextById has loaded the state of a restored id
C34_Witness ==
  /\ starting = "done"
  /\ contexts["c1"] = StateOf("c1")
  /\ contexts["c2"] = FirstCall /\ alias = FirstCall
  /\ contextIds = {"c1", "c2"}
====
